---------------------------- MODULE Spec2Model ----------------------------
(***************************************************************************)
(* A model of ssql/query_builder.py (QueryBuilder): the semantic analysis  *)
(* that turns the tokenizer's nested token structure into an operator      *)
(* tree with an attached output descriptor table.                          *)
(*                                                                         *)
(* Token groups.  A field token group ['f', [arg], ..., 'AS', 'a'] is the  *)
(* record [head |-> "f", args |-> <<arg, ...>>, as |-> "a"]; as = NoAlias  *)
(* when the group has no trailing AS clause, head = NoToken for the empty  *)
(* group.  The group's length without the AS clause is FieldLen.  Field    *)
(* groups of the modelled queries carry no literal parenthesis tokens, so  *)
(* __clean_list leaves them as they are; where-clause lists do carry them. *)
(***************************************************************************)
EXTENDS Integers, Sequences, FiniteSets, TLC

VARIABLES
    query,              \* the parsed query being compiled (tokenizer output)
    pc,                 \* position of the build call
    counter,            \* self.unnamed_operator_counter
    counter0,           \* value of the counter when the current build began
    tree,               \* predicate tree (later the root's child)
    where_fields,       \* where_fields of __parse_where (normalised groups)
    tuple_descriptor,   \* intermediate table of __add_select_and_aggregate
    fields_to_verify,   \* obligations collected by the first pass
    select_descriptor,  \* output descriptor table
    group_descriptor,   \* GROUP BY descriptor table
    aggregates,         \* aggregate select descriptors, in select order
    select_parsed,      \* field_descriptors[0] of each select field (second pass)
    root,               \* the returned root: the predicate tree or a GroupBy node
    source,             \* StatusSource of the result
    error,              \* exception that ended the build, NoError otherwise
    threads,            \* concurrent compilations minting aliases
    minted,             \* every synthetic alias minted so far: <<thread, alias>>
    serialized          \* whether build calls on the instance are serialized

vars == <<query, pc, counter, counter0, tree, where_fields, tuple_descriptor,
          fields_to_verify, select_descriptor, group_descriptor, aggregates,
          select_parsed, root, source, error, threads, minted, serialized>>

buildVars == <<query, pc, counter0, tree, where_fields, tuple_descriptor,
               fields_to_verify, select_descriptor, group_descriptor,
               aggregates, select_parsed, root, source, error>>

mintVars == <<threads, minted, serialized>>

---------------------------------------------------------------------------
(* Tokens, field types and error kinds *)

NoAlias == ""
NoToken == ""
None == "None"

AND == "and"
OR == "or"
LPAREN == "("
RPAREN == ")"
CONTAINS == "contains"
EQUALS == "=="
EXCLAIM_EQUALS == "!="

RAW == "RAW"
FUNCTION == "FUNCTION"
AGGREGATE == "AGGREGATE"
UNDEFINED == "UNDEFINED"

NoError == "NoError"
UnknownSource == "UnknownSource"
EmptyFieldClause == "EmptyFieldClause"
MissingAliasForComplexField == "MissingAliasForComplexField"
UnknownCallable == "UnknownCallable"
UnresolvableField == "UnresolvableField"
AggregateWithoutWindow == "AggregateWithoutWindow"
UngroupedSelectField == "UngroupedSelectField"
RecursionError == "RecursionError"

---------------------------------------------------------------------------
(* Field descriptors and descriptor tables *)

FieldDescriptor(alias, underlying_fields, field_type, aggregate_factory, function, visible) ==
    [alias |-> alias, underlying_fields |-> underlying_fields,
     field_type |-> field_type, aggregate_factory |-> aggregate_factory,
     function |-> function, visible |-> visible]

\* get_descriptor's "no such alias" (Python None)
NoDescriptor == FieldDescriptor(NoAlias, <<>>, None, None, None, FALSE)

TupleDescriptor == <<>>

Aliases(td) == [i \in 1..Len(td) |-> td[i].alias]

HasAlias(td, alias) == \E i \in 1..Len(td) : td[i].alias = alias

get_descriptor(td, alias) ==
    IF HasAlias(td, alias)
    THEN td[CHOOSE i \in 1..Len(td) : td[i].alias = alias]
    ELSE NoDescriptor

\* Aliases are unique within a table: the first descriptor entered under an
\* alias stays, a later one with the same alias is not entered.
add_descriptor(td, fd) ==
    IF HasAlias(td, fd.alias) THEN td ELSE Append(td, fd)

RECURSIVE add_descriptor_list(_, _)
add_descriptor_list(td, fds) ==
    IF fds = <<>> THEN td
    ELSE add_descriptor_list(add_descriptor(td, Head(fds)), Tail(fds))

\* The built-in schema: native fields, each Raw-typed and visible.
SchemaFields == {"text", "lang"}

twitter_tuple_descriptor ==
    <<FieldDescriptor("text", <<"text">>, RAW, None, None, TRUE),
      FieldDescriptor("lang", <<"lang">>, RAW, None, None, TRUE)>>

\* Registries: lookup by exact name, None when absent.
AggregateNames == {"count"}
FunctionNames == {"f", "g"}

get_aggregate_factory(name) == IF name \in AggregateNames THEN name ELSE None

get_function(name) == IF name \in FunctionNames THEN name ELSE None

---------------------------------------------------------------------------
(* __parse_field *)

Field(head, args, as) == [head |-> head, args |-> args, as |-> as]

FieldLen(field) == IF field.head = NoToken THEN 0 ELSE 1 + Len(field.args)

\* the counter with the increment left out
MintCounterStuck(c) == c

\* self.unnamed_operator_counter += 1
MintCounter(c) == c + 1

\* alias = "operand%d" % (self.unnamed_operator_counter)
MintAlias(c) == "operand" \o ToString(c)

Parsed(fds, verify, ctr) ==
    [fds |-> fds, verify |-> verify, ctr |-> ctr, err |-> NoError]

Raised(err, ctr) == [fds |-> <<>>, verify |-> <<>>, ctr |-> ctr, err |-> err]

Hide(fds) == [i \in 1..Len(fds) |-> [fds[i] EXCEPT !.visible = FALSE]]

RECURSIVE parse_field(_, _, _, _, _)
RECURSIVE parse_underlying(_, _, _)

\* The loop over underlying_field_list: the arguments' descriptors (hidden,
\* flattened), their obligations and their aliases.
parse_underlying(underlying_field_list, td, ctr) ==
    IF underlying_field_list = <<>>
    THEN [fds |-> <<>>, verify |-> <<>>, underlying_fields |-> <<>>,
          ctr |-> ctr, err |-> NoError]
    ELSE LET p == parse_field(Head(underlying_field_list), td, FALSE, FALSE, ctr)
         IN IF p.err # NoError
            THEN [fds |-> <<>>, verify |-> <<>>, underlying_fields |-> <<>>,
                  ctr |-> p.ctr, err |-> p.err]
            ELSE LET rest == parse_underlying(Tail(underlying_field_list), td, p.ctr)
                 IN [fds |-> Hide(p.fds) \o rest.fds,
                     verify |-> p.verify \o rest.verify,
                     underlying_fields |-> <<p.fds[1].alias>> \o rest.underlying_fields,
                     ctr |-> rest.ctr, err |-> rest.err]

parse_field(field, td, alias_on_complex_types, make_visible, ctr) ==
    IF FieldLen(field) = 1
    THEN LET alias == IF field.as = NoAlias THEN field.head ELSE field.as
             field_descriptor == get_descriptor(td, field.head)
         IN IF field_descriptor = NoDescriptor
            THEN Parsed(<<FieldDescriptor(alias, <<field.head>>, UNDEFINED,
                                          None, None, make_visible)>>,
                        <<field.head, alias>>, ctr)
            ELSE Parsed(<<FieldDescriptor(alias, field_descriptor.underlying_fields,
                                          field_descriptor.field_type,
                                          field_descriptor.aggregate_factory,
                                          field_descriptor.function, make_visible)>>,
                        <<>>, ctr)
    ELSE IF FieldLen(field) > 1
    THEN IF field.as = NoAlias /\ alias_on_complex_types
         THEN Raised(MissingAliasForComplexField, ctr)
         ELSE LET c == IF field.as = NoAlias THEN MintCounter(ctr) ELSE ctr
                  alias == IF field.as = NoAlias THEN MintAlias(c) ELSE field.as
                  u == parse_underlying(field.args, td, c)
                  aggregate_factory == get_aggregate_factory(field.head)
                  function == get_function(field.head)
              IN IF u.err # NoError THEN Raised(u.err, u.ctr)
                 ELSE IF aggregate_factory # None
                 THEN Parsed(<<FieldDescriptor(alias, u.underlying_fields, AGGREGATE,
                                               aggregate_factory, None, make_visible)>>
                             \o u.fds, u.verify, u.ctr)
                 ELSE IF function # None
                 THEN Parsed(<<FieldDescriptor(alias, u.underlying_fields, FUNCTION,
                                               None, function, make_visible)>>
                             \o u.fds, u.verify, u.ctr)
                 ELSE Raised(UnknownCallable, u.ctr)
    ELSE Raised(EmptyFieldClause, ctr)

---------------------------------------------------------------------------
(* __verify_and_fix_field *)

ReplaceDescriptor(td, fd) ==
    [i \in 1..Len(td) |-> IF td[i].alias = fd.alias THEN fd ELSE td[i]]

\* depth counts the frames of the recursion.  The table is only changed
\* after a recursive call returns, so a chain of more frames than the table
\* has entries revisits an alias with the table unchanged and never bottoms
\* out: the interpreter ends it with its recursion-depth error.
RECURSIVE verify_and_fix_field(_, _, _)
verify_and_fix_field(field, td, depth) ==
    LET field_descriptor == get_descriptor(td, field)
    IN IF field_descriptor = NoDescriptor
       THEN [td |-> td, fd |-> NoDescriptor, err |-> UnresolvableField]
       ELSE IF field_descriptor.field_type = UNDEFINED
       THEN IF field = field_descriptor.underlying_fields[1]
            THEN [td |-> td, fd |-> NoDescriptor, err |-> UnresolvableField]
            ELSE IF depth > Len(td)
            THEN [td |-> td, fd |-> NoDescriptor, err |-> RecursionError]
            ELSE LET r == verify_and_fix_field(field_descriptor.underlying_fields[1],
                                               td, depth + 1)
                     fixed == [field_descriptor EXCEPT
                                 !.underlying_fields = r.fd.underlying_fields,
                                 !.field_type = r.fd.field_type,
                                 !.aggregate_factory = r.fd.aggregate_factory,
                                 !.function = r.fd.function]
                 IN IF r.err # NoError
                    THEN [td |-> r.td, fd |-> NoDescriptor, err |-> r.err]
                    ELSE [td |-> ReplaceDescriptor(r.td, fixed), fd |-> fixed,
                          err |-> NoError]
       ELSE [td |-> td, fd |-> field_descriptor, err |-> NoError]

\* for field in fields_to_verify: self.__verify_and_fix_field(field, tuple_descriptor)
RECURSIVE verify_all(_, _)
verify_all(fields, td) ==
    IF fields = <<>> THEN [td |-> td, err |-> NoError]
    ELSE LET r == verify_and_fix_field(Head(fields), td, 1)
         IN IF r.err # NoError THEN [td |-> r.td, err |-> r.err]
            ELSE verify_all(Tail(fields), r.td)

---------------------------------------------------------------------------
(* The where clause: __parse_where, __parse_clauses, __parse_operator *)

\* Where-clause token structure.  A node is a bare token (tok), a list
\* tagged WHERE_CONDITION holding [field, operator, literal] (cond), or a
\* list of nodes (list); NoWhere is the tokenizer's [''].
NoField == Field(NoToken, <<>>, NoAlias)

Token(t) ==
    [k |-> "tok", tok |-> t, field |-> NoField, oper |-> NoToken,
     lit |-> NoToken, items |-> <<>>]

Condition(field, oper, lit) ==
    [k |-> "cond", tok |-> NoToken, field |-> field, oper |-> oper,
     lit |-> lit, items |-> <<>>]

Clauses(items) ==
    [k |-> "list", tok |-> NoToken, field |-> NoField, oper |-> NoToken,
     lit |-> NoToken, items |-> items]

NoWhere == Token(NoToken)

\* Predicate tree nodes (ssql.operators)
Node(op, alias, lit, kids) == [op |-> op, alias |-> alias, lit |-> lit, kids |-> kids]

AllowAll == Node("AllowAll", NoAlias, NoToken, <<>>)
And(kids) == Node("And", NoAlias, NoToken, kids)
Or(kids) == Node("Or", NoAlias, NoToken, kids)
Not(kid) == Node("Not", NoAlias, NoToken, <<kid>>)
Contains(alias, lit) == Node("Contains", alias, lit, <<>>)
Equals(alias, lit) == Node("Equals", alias, lit, <<>>)
\* a bare token handed back by __parse_clauses, and __parse_operator's None
BareToken(t) == Node("Token", NoAlias, t, <<>>)
NoTree == Node(None, NoAlias, NoToken, <<>>)

\* __remove_all(list, token)
RECURSIVE remove_all(_, _)
remove_all(list, token) ==
    IF list = <<>> THEN <<>>
    ELSE IF Head(list).k = "tok" /\ Head(list).tok = token
    THEN remove_all(Tail(list), token)
    ELSE <<Head(list)>> \o remove_all(Tail(list), token)

clean_list(list) == remove_all(remove_all(list, LPAREN), RPAREN)

\* And nodes of two children each, nested to the right
RECURSIVE NestPairwise(_)
NestPairwise(ands) ==
    IF Len(ands) = 1 THEN ands[1]
    ELSE And(<<Head(ands), NestPairwise(Tail(ands))>>)

\* __and_or_single: a single operand stays bare, several become one And
and_or_single(ands) == IF Len(ands) = 1 THEN ands[1] ELSE And(ands)

\* __where_field: resolve the operand against the schema, attach the alias
\* the resolver chose when the group has no AS clause, record the group.
where_field(field, wfields, ctr) ==
    LET p == parse_field(field, twitter_tuple_descriptor, FALSE, FALSE, ctr)
        alias == p.fds[1].alias
        named == IF field.as = NoAlias THEN [field EXCEPT !.as = alias] ELSE field
    IN IF p.err # NoError
       THEN [alias |-> NoAlias, wfields |-> wfields, ctr |-> p.ctr, err |-> p.err]
       ELSE [alias |-> alias, wfields |-> Append(wfields, named),
             ctr |-> p.ctr, err |-> NoError]

parse_operator(clause, wfields, ctr) ==
    IF clause.oper \in {CONTAINS, EQUALS, EXCLAIM_EQUALS}
    THEN LET w == where_field(clause.field, wfields, ctr)
         IN [tree |-> IF w.err # NoError THEN NoTree
                      ELSE IF clause.oper = CONTAINS THEN Contains(w.alias, clause.lit)
                      ELSE IF clause.oper = EQUALS THEN Equals(w.alias, clause.lit)
                      ELSE Not(Equals(w.alias, clause.lit)),
             wfields |-> w.wfields, ctr |-> w.ctr, err |-> w.err]
    ELSE [tree |-> NoTree, wfields |-> wfields, ctr |-> ctr, err |-> NoError]

RECURSIVE parse_clauses(_, _, _)
RECURSIVE clauses_loop(_, _, _, _, _, _)

\* the while loop of __parse_clauses; i is 1-based
clauses_loop(clauses, i, ands, ors, wfields, ctr) ==
    IF i > Len(clauses)
    THEN [tree |-> IF Len(ors) = 1 THEN ors[1] ELSE Or(ors),
          wfields |-> wfields, ctr |-> ctr, err |-> NoError]
    ELSE LET p == parse_clauses(clauses[i], wfields, ctr)
             ands1 == Append(ands, p.tree)
         IN IF p.err # NoError THEN p
            ELSE IF i + 1 = Len(clauses) + 1
            THEN clauses_loop(clauses, i + 2, ands1, Append(ors, and_or_single(ands1)),
                              p.wfields, p.ctr)
            ELSE IF clauses[i + 1].k = "tok" /\ clauses[i + 1].tok = OR
            THEN clauses_loop(clauses, i + 2, <<>>, Append(ors, and_or_single(ands1)),
                              p.wfields, p.ctr)
            ELSE clauses_loop(clauses, i + 2, ands1, ors, p.wfields, p.ctr)

parse_clauses(clauses, wfields, ctr) ==
    IF clauses.k = "tok"
    THEN [tree |-> BareToken(clauses.tok), wfields |-> wfields,
          ctr |-> ctr, err |-> NoError]
    ELSE IF clauses.k = "cond"
    THEN parse_operator(clauses, wfields, ctr)
    ELSE clauses_loop(clean_list(clauses.items), 1, <<>>, <<>>, wfields, ctr)

parse_where(where_clause, ctr) ==
    IF where_clause = NoWhere
    THEN [tree |-> AllowAll, wfields |-> <<>>, ctr |-> ctr, err |-> NoError]
    ELSE parse_clauses(where_clause, <<>>, ctr)

---------------------------------------------------------------------------
(* __get_source and __add_select_and_aggregate *)

\* A source token is its stem and what follows the stem, so that
\* startswith(TWITTER_SAMPLE) is a test of the stem.
SourceToken(stem, rest) == [stem |-> stem, rest |-> rest]

TWITTER == SourceToken("twitter", "")
TWITTER_SAMPLE == SourceToken("twitter_sample", "")

get_source(src) ==
    IF src = TWITTER
    THEN [source |-> "TWITTER_FILTER", err |-> NoError]
    ELSE IF src.stem = TWITTER_SAMPLE.stem
    THEN [source |-> "TWITTER_SAMPLE", err |-> NoError]
    ELSE [source |-> None, err |-> UnknownSource]

\* first pass: for field in all_fields: parse against the schema, collect
\* the obligations, enter the descriptors
RECURSIVE collect_fields(_, _, _, _)
collect_fields(all_fields, td, verify, ctr) ==
    IF all_fields = <<>>
    THEN [td |-> td, verify |-> verify, ctr |-> ctr, err |-> NoError]
    ELSE LET p == parse_field(Head(all_fields), twitter_tuple_descriptor, TRUE, FALSE, ctr)
         IN IF p.err # NoError
            THEN [td |-> td, verify |-> verify, ctr |-> p.ctr, err |-> p.err]
            ELSE collect_fields(Tail(all_fields), add_descriptor_list(td, p.fds),
                                verify \o p.verify, p.ctr)

\* second pass over select: visible descriptors resolved against the
\* verified table; the AGGREGATE-typed ones are the aggregates
RECURSIVE select_loop(_, _, _, _, _, _)
select_loop(select, td, sd, aggs, parsed, ctr) ==
    IF select = <<>>
    THEN [sd |-> sd, aggs |-> aggs, parsed |-> parsed, ctr |-> ctr, err |-> NoError]
    ELSE LET p == parse_field(Head(select), td, TRUE, TRUE, ctr)
         IN IF p.err # NoError
            THEN [sd |-> sd, aggs |-> aggs, parsed |-> parsed, ctr |-> p.ctr, err |-> p.err]
            ELSE select_loop(Tail(select), td, add_descriptor_list(sd, p.fds),
                             IF p.fds[1].field_type = AGGREGATE
                             THEN Append(aggs, p.fds[1]) ELSE aggs,
                             Append(parsed, p.fds[1]), p.ctr)

\* fields entered into a table with the given visibility: the where fields
\* (invisible) and the group-by fields (visible)
RECURSIVE enter_fields(_, _, _, _, _)
enter_fields(fields, td, into, make_visible, ctr) ==
    IF fields = <<>>
    THEN [td |-> into, ctr |-> ctr, err |-> NoError]
    ELSE LET p == parse_field(Head(fields), td, TRUE, make_visible, ctr)
         IN IF p.err # NoError
            THEN [td |-> into, ctr |-> p.ctr, err |-> p.err]
            ELSE enter_fields(Tail(fields), td, add_descriptor_list(into, p.fds),
                              make_visible, p.ctr)

\* the grouping test without its visibility condition
UngroupedIgnoringVisible(sd, gd) ==
    \E i \in 1..Len(sd) :
        /\ get_descriptor(gd, sd[i].alias) = NoDescriptor
        /\ sd[i].field_type # AGGREGATE

\* for alias in select_descriptor.aliases: the test that raises
\* "appears in the SELECT but is neither an aggregate nor a GROUP BY field"
Ungrouped(sd, gd) ==
    \E i \in 1..Len(sd) :
        /\ get_descriptor(gd, sd[i].alias) = NoDescriptor
        /\ sd[i].field_type # AGGREGATE
        /\ sd[i].visible

\* The root handed back: the predicate tree itself, or
\* operators.GroupBy(tree, group_descriptor, aggregates, window)
NoRoot == [kind |-> None, window |-> None]
Predicate == [kind |-> "Predicate", window |-> None]
GroupBy(window) == [kind |-> "GroupBy", window |-> window]

\* the aggregate branch with the window test made after the grouping test
GroupWindowTestLast(aggs, window, groupby, td, sd, ctr) ==
    IF Len(aggs) > 0
    THEN LET g == enter_fields(groupby, td, TupleDescriptor, TRUE, ctr)
         IN IF g.err # NoError
            THEN [root |-> NoRoot, gd |-> g.td, ctr |-> g.ctr, err |-> g.err]
            ELSE IF Ungrouped(sd, g.td)
            THEN [root |-> NoRoot, gd |-> g.td, ctr |-> g.ctr,
                  err |-> UngroupedSelectField]
            ELSE IF window = None
            THEN [root |-> NoRoot, gd |-> g.td, ctr |-> g.ctr,
                  err |-> AggregateWithoutWindow]
            ELSE [root |-> GroupBy(window), gd |-> g.td, ctr |-> g.ctr, err |-> NoError]
    ELSE [root |-> Predicate, gd |-> TupleDescriptor, ctr |-> ctr, err |-> NoError]

\* if len(aggregates) > 0: the window test, the group-by descriptor, the
\* grouping test, the GroupBy node
group(aggs, window, groupby, td, sd, ctr) ==
    IF Len(aggs) > 0
    THEN IF window = None
         THEN [root |-> NoRoot, gd |-> TupleDescriptor, ctr |-> ctr,
               err |-> AggregateWithoutWindow]
         ELSE LET g == enter_fields(groupby, td, TupleDescriptor, TRUE, ctr)
              IN IF g.err # NoError
                 THEN [root |-> NoRoot, gd |-> g.td, ctr |-> g.ctr, err |-> g.err]
                 ELSE IF Ungrouped(sd, g.td)
                 THEN [root |-> NoRoot, gd |-> g.td, ctr |-> g.ctr,
                       err |-> UngroupedSelectField]
                 ELSE [root |-> GroupBy(window), gd |-> g.td, ctr |-> g.ctr, err |-> NoError]
    ELSE [root |-> Predicate, gd |-> TupleDescriptor, ctr |-> ctr, err |-> NoError]

---------------------------------------------------------------------------
(* The queries compiled: the tokenizer's output for a bounded set of texts *)

MaxSelect == 2        \* longest select list
MaxOperands == 4      \* most operands of one AND/OR sequence
MaxStartCounter == 1  \* a build starts only while the counter is at most this
MaxMints == 2         \* aliases minted by one concurrent compilation

Name(n) == Field(n, <<>>, NoAlias)

\* text | text AS t | t AS u | u AS t | t | f(t) AS v
\* count(text) AS c | c AS d | f(g(text)) AS y | y AS z
\* g(text) (no alias) | nope(text) AS n
FieldPool ==
    { Name("text"), Field("text", <<>>, "t"), Field("t", <<>>, "u"),
      Field("u", <<>>, "t"), Name("t"),
      Field("f", <<Name("t")>>, "v"),
      Field("count", <<Name("text")>>, "c"), Field("c", <<>>, "d"),
      Field("f", <<Field("g", <<Name("text")>>, NoAlias)>>, "y"),
      Field("y", <<>>, "z"),
      Field("g", <<Name("text")>>, NoAlias),
      Field("nope", <<Name("text")>>, "n") }

SeqsUpTo(S, n) == UNION { [1..k -> S] : k \in 1..n }

SelectLists(longest) == SeqsUpTo(FieldPool, longest)

\* WHERE text contains 'foo' and lang == 'en' | WHERE t contains 'foo'
\* WHERE g(text) != 'x'
WherePool ==
    { NoWhere,
      Clauses(<<Condition(Name("text"), CONTAINS, "foo"), Token(AND),
                Condition(Name("lang"), EQUALS, "en")>>),
      Clauses(<<Condition(Name("t"), CONTAINS, "foo")>>),
      Clauses(<<Condition(Field("g", <<Name("text")>>, NoAlias), EXCLAIM_EQUALS, "x")>>) }

GroupByPool == { <<>>, <<Name("text")>>, <<Name("t")>> }

WindowPool == { None, "60" }

Query(src, select, where, groupby, window) ==
    [source |-> src, select |-> select, where |-> where, groupby |-> groupby,
     window |-> window]

NoQuery == Query(TWITTER, <<>>, NoWhere, <<>>, None)

Queries(longest) ==
    { Query(TWITTER, s, w, g, win) :
        s \in SelectLists(longest), w \in WherePool, g \in GroupByPool, win \in WindowPool }
    \cup { Query(src, <<Name("text")>>, NoWhere, <<>>, None) :
             src \in { SourceToken("twitter_sample", ""),
                       SourceToken("twitter_sample", "_stream"),
                       SourceToken("bogus_source", "") } }

---------------------------------------------------------------------------
(* build, one step per phase *)

Init ==
    /\ query = NoQuery
    /\ pc = "idle"
    /\ counter = 0
    /\ counter0 = 0
    /\ tree = NoTree
    /\ where_fields = <<>>
    /\ tuple_descriptor = TupleDescriptor
    /\ fields_to_verify = <<>>
    /\ select_descriptor = TupleDescriptor
    /\ group_descriptor = TupleDescriptor
    /\ aggregates = <<>>
    /\ select_parsed = <<>>
    /\ root = NoRoot
    /\ source = None
    /\ error = NoError
    /\ threads = <<>>
    /\ minted = <<>>
    /\ serialized = TRUE

\* a new call sees fresh locals; only the counter outlives a call
Fresh ==
    /\ tree' = NoTree
    /\ where_fields' = <<>>
    /\ tuple_descriptor' = TupleDescriptor
    /\ fields_to_verify' = <<>>
    /\ select_descriptor' = TupleDescriptor
    /\ group_descriptor' = TupleDescriptor
    /\ aggregates' = <<>>
    /\ select_parsed' = <<>>
    /\ root' = NoRoot
    /\ source' = None
    /\ error' = NoError

\* build(query_str): parsed is what the parser may hand back
Build(parsed) ==
    /\ pc = "idle"
    /\ counter <= MaxStartCounter
    /\ \E q \in parsed : query' = q
    /\ pc' = "get_source"
    /\ counter0' = counter
    /\ Fresh
    /\ UNCHANGED <<counter, mintVars>>

\* the call returns its Query or raises; the instance is ready for the next
Return ==
    /\ pc \in {"done", "failed"}
    /\ pc' = "idle"
    /\ query' = NoQuery
    /\ counter0' = counter
    /\ Fresh
    /\ UNCHANGED <<counter, mintVars>>

GetSource ==
    /\ pc = "get_source"
    /\ LET r == get_source(query.source)
       IN /\ source' = r.source
          /\ error' = r.err
          /\ pc' = IF r.err = NoError THEN "parse_where" ELSE "failed"
    /\ UNCHANGED <<query, counter, counter0, tree, where_fields, tuple_descriptor,
                   fields_to_verify, select_descriptor, group_descriptor,
                   aggregates, select_parsed, root, mintVars>>

ParseWhere ==
    /\ pc = "parse_where"
    /\ LET r == parse_where(query.where, counter)
       IN /\ tree' = r.tree
          /\ where_fields' = r.wfields
          /\ counter' = r.ctr
          /\ error' = r.err
          /\ pc' = IF r.err = NoError THEN "collect" ELSE "failed"
    /\ UNCHANGED <<query, counter0, tuple_descriptor, fields_to_verify,
                   select_descriptor, group_descriptor, aggregates,
                   select_parsed, root, source, mintVars>>

\* all_fields = chain(select, where, groupby), parsed against the schema
CollectFields ==
    /\ pc = "collect"
    /\ LET r == collect_fields(query.select \o where_fields \o query.groupby,
                               TupleDescriptor, <<>>, counter)
       IN /\ tuple_descriptor' = r.td
          /\ fields_to_verify' = r.verify
          /\ counter' = r.ctr
          /\ error' = r.err
          /\ pc' = IF r.err = NoError THEN "verify" ELSE "failed"
    /\ UNCHANGED <<query, counter0, tree, where_fields, select_descriptor,
                   group_descriptor, aggregates, select_parsed, root, source,
                   mintVars>>

VerifyFields ==
    /\ pc = "verify"
    /\ LET r == verify_all(fields_to_verify, tuple_descriptor)
       IN /\ tuple_descriptor' = r.td
          /\ error' = r.err
          /\ pc' = IF r.err = NoError THEN "select" ELSE "failed"
    /\ UNCHANGED <<query, counter, counter0, tree, where_fields, fields_to_verify,
                   select_descriptor, group_descriptor, aggregates,
                   select_parsed, root, source, mintVars>>

\* the select loop, then the where fields as invisible attributes
BuildSelect ==
    /\ pc = "select"
    /\ LET s == select_loop(query.select, tuple_descriptor, TupleDescriptor,
                            <<>>, <<>>, counter)
           w == enter_fields(where_fields, tuple_descriptor, s.sd, FALSE, s.ctr)
       IN /\ aggregates' = s.aggs
          /\ select_parsed' = s.parsed
          /\ select_descriptor' = IF s.err = NoError THEN w.td ELSE s.sd
          /\ counter' = IF s.err = NoError THEN w.ctr ELSE s.ctr
          /\ error' = IF s.err = NoError THEN w.err ELSE s.err
          /\ pc' = IF s.err = NoError /\ w.err = NoError THEN "group" ELSE "failed"
    /\ UNCHANGED <<query, counter0, tree, where_fields, tuple_descriptor,
                   fields_to_verify, group_descriptor, root, source, mintVars>>

\* the aggregate branch, tree.assign_descriptor(select_descriptor), return
GroupAndAssign ==
    /\ pc = "group"
    /\ LET r == group(aggregates, query.window, query.groupby, tuple_descriptor,
                      select_descriptor, counter)
       IN /\ group_descriptor' = r.gd
          /\ root' = r.root
          /\ counter' = r.ctr
          /\ error' = r.err
          /\ pc' = IF r.err = NoError THEN "done" ELSE "failed"
    /\ UNCHANGED <<query, counter0, tree, where_fields, tuple_descriptor,
                   fields_to_verify, select_descriptor, aggregates,
                   select_parsed, source, mintVars>>

Next ==
    \/ Build(Queries(MaxSelect))
    \/ GetSource
    \/ ParseWhere
    \/ CollectFields
    \/ VerifyFields
    \/ BuildSelect
    \/ GroupAndAssign
    \/ Return

Spec == Init /\ [][Next]_vars

---------------------------------------------------------------------------
(* Where clauses as alternating operand / connective sequences *)

CondA == Condition(Name("text"), CONTAINS, "a")
CondB == Condition(Name("lang"), EQUALS, "b")
CondC == Condition(Name("text"), EXCLAIM_EQUALS, "c")
CondD == Condition(Name("lang"), CONTAINS, "d")

\* ( A or B )   and   ( C and D or A )
GroupAorB == Clauses(<<Token(LPAREN), CondA, Token(OR), CondB, Token(RPAREN)>>)
GroupCDorA ==
    Clauses(<<Token(LPAREN), CondC, Token(AND), CondD, Token(OR), CondA,
              Token(RPAREN)>>)

Alternate(operands, connectives) ==
    [i \in 1..(2 * Len(operands) - 1) |->
        IF i % 2 = 1 THEN operands[(i + 1) \div 2] ELSE Token(connectives[i \div 2])]

AlternatingOver(pool, most) ==
    UNION { { Clauses(Alternate(o, c)) :
                o \in [1..n -> pool], c \in [1..(n - 1) -> {AND, OR}] } :
            n \in 1..most }

ClauseInputs(most) ==
    AlternatingOver({CondA, CondB, CondC, CondD}, most)
    \cup AlternatingOver({CondA, GroupAorB, GroupCDorA}, most)

WhereQueries(most) ==
    { Query(TWITTER, <<Name("text")>>, w, <<>>, None) : w \in ClauseInputs(most) }

NextWhere ==
    \/ Build(WhereQueries(MaxOperands))
    \/ GetSource
    \/ ParseWhere
    \/ CollectFields
    \/ VerifyFields
    \/ BuildSelect
    \/ GroupAndAssign
    \/ Return

SpecWhere == Init /\ [][NextWhere]_vars

\* The tree the claim describes, from the token sequence alone.
OperandsOf(items) == [j \in 1..((Len(items) + 1) \div 2) |-> items[2 * j - 1]]
ConnectivesOf(items) == [j \in 1..((Len(items) - 1) \div 2) |-> items[2 * j].tok]

\* last operand of the maximal OR-free run that starts at operand s
RunEnd(conns, n, s) ==
    CHOOSE e \in s..n :
        /\ e = n \/ conns[e] = OR
        /\ \A j \in s..(e - 1) : conns[j] = AND

RECURSIVE RunsFrom(_, _, _)
RunsFrom(trees, conns, s) ==
    IF s > Len(trees) THEN <<>>
    ELSE LET e == RunEnd(conns, Len(trees), s)
         IN <<SubSeq(trees, s, e)>> \o RunsFrom(trees, conns, e + 1)

RunTree(run) == IF Len(run) = 1 THEN run[1] ELSE And(run)

LeafTree(cond) ==
    IF cond.oper = CONTAINS THEN Contains(cond.field.head, cond.lit)
    ELSE IF cond.oper = EQUALS THEN Equals(cond.field.head, cond.lit)
    ELSE Not(Equals(cond.field.head, cond.lit))

RECURSIVE ExpectedTree(_)
ExpectedTree(node) ==
    IF node.k = "cond" THEN LeafTree(node)
    ELSE LET items == SelectSeq(node.items,
                                LAMBDA x : ~(x.k = "tok" /\ x.tok \in {LPAREN, RPAREN}))
             operands == OperandsOf(items)
             trees == [j \in 1..Len(operands) |-> ExpectedTree(operands[j])]
             runs == RunsFrom(trees, ConnectivesOf(items), 1)
         IN IF Len(runs) = 1 THEN RunTree(runs[1])
            ELSE Or([k \in 1..Len(runs) |-> RunTree(runs[k])])

WhereParsed == pc \in {"collect", "verify", "select", "group", "done"}

\* C1: for a where clause that alternates operands with AND/OR, the tree of
\* __parse_clauses is: one And node per maximal OR-free run of two or more
\* operands (its children the run's operand trees, in order), the bare
\* operand tree for a run of one, and one Or node over the runs when there
\* are several; `A and B or C and D` gives Or([And([A,B]), And([C,D])]).
C1_AndRunsUnderOr ==
    (WhereParsed /\ query.where # NoWhere) => tree = ExpectedTree(query.where)

C1_Witness ==
    /\ WhereParsed
    /\ query.where = Clauses(<<CondA, Token(AND), CondB, Token(OR), CondC,
                               Token(AND), CondD>>)
    /\ tree = Or(<<And(<<Contains("text", "a"), Equals("lang", "b")>>),
                   And(<<Not(Equals("text", "c")), Contains("lang", "d")>>)>>)

---------------------------------------------------------------------------
(* build as one function of the parsed query and the counter *)

Outcome(err, sd, gd, rt, ctr) ==
    [err |-> err, sd |-> sd, gd |-> gd, root |-> rt, ctr |-> ctr]

build(q, ctr) ==
    LET src == get_source(q.source)
        w == parse_where(q.where, ctr)
        c == collect_fields(q.select \o w.wfields \o q.groupby, TupleDescriptor,
                            <<>>, w.ctr)
        v == verify_all(c.verify, c.td)
        s == select_loop(q.select, v.td, TupleDescriptor, <<>>, <<>>, c.ctr)
        i == enter_fields(w.wfields, v.td, s.sd, FALSE, s.ctr)
        g == group(s.aggs, q.window, q.groupby, v.td, i.td, i.ctr)
    IN IF src.err # NoError
       THEN Outcome(src.err, TupleDescriptor, TupleDescriptor, NoRoot, ctr)
       ELSE IF w.err # NoError
       THEN Outcome(w.err, TupleDescriptor, TupleDescriptor, NoRoot, w.ctr)
       ELSE IF c.err # NoError
       THEN Outcome(c.err, TupleDescriptor, TupleDescriptor, NoRoot, c.ctr)
       ELSE IF v.err # NoError
       THEN Outcome(v.err, TupleDescriptor, TupleDescriptor, NoRoot, c.ctr)
       ELSE IF s.err # NoError
       THEN Outcome(s.err, s.sd, TupleDescriptor, NoRoot, s.ctr)
       ELSE IF i.err # NoError
       THEN Outcome(i.err, i.td, TupleDescriptor, NoRoot, i.ctr)
       ELSE Outcome(g.err, i.td, g.gd, g.root, g.ctr)

\* The phases, run one after the other, are build.
StepsAreBuild ==
    pc \in {"done", "failed"} =>
        LET o == build(query, counter0)
        IN /\ o.err = error
           /\ o.ctr = counter
           /\ o.sd = select_descriptor
           /\ o.gd = group_descriptor
           /\ o.root = root

---------------------------------------------------------------------------
(* Properties of a build *)

Finished == pc \in {"done", "failed"}

\* field_type, underlying_fields, function and aggregate_factory
Resolved(fd) ==
    <<fd.field_type, fd.underlying_fields, fd.function, fd.aggregate_factory>>

AliasSet(td) == { td[i].alias : i \in 1..Len(td) }

SameResolution(td1, td2) ==
    /\ AliasSet(td1) = AliasSet(td2)
    /\ \A a \in AliasSet(td1) :
           Resolved(get_descriptor(td1, a)) = Resolved(get_descriptor(td2, a))

\* the alias under which a select field is entered
SelectAlias(field) == IF field.as = NoAlias THEN field.head ELSE field.as

IsCall(field) == FieldLen(field) > 1

RECURSIVE Mentions(_, _)
\* the field is the bare name, or a call with the name among its arguments
Mentions(field, name) ==
    IF IsCall(field)
    THEN \E j \in 1..Len(field.args) : Mentions(field.args[j], name)
    ELSE field.head = name

\* `<schema field> AS t` or `f(x) AS t` with x from the schema: the entry
\* that defines alias t
Defines(field, t) ==
    /\ field.as = t
    /\ t \notin SchemaFields
    /\ \/ ~IsCall(field) /\ field.head \in SchemaFields
       \/ IsCall(field) /\ field.head \in FunctionNames
          /\ \A name \in {"t", "u", "c", "y"} : ~Mentions(field, name)

Uses(field, t) == field.as # t /\ Mentions(field, t)

SwapSelect(q) == [q EXCEPT !.select = <<q.select[2], q.select[1]>>]

DefinedAndUsed ==
    /\ Len(query.select) = 2
    /\ \E t \in {"t", "y"} :
          \/ Defines(query.select[1], t) /\ Uses(query.select[2], t)
          \/ Defines(query.select[2], t) /\ Uses(query.select[1], t)

\* C2: with alias t defined in SELECT and used by another SELECT field,
\* build succeeds and records the same resolved data for every alias
\* whichever of the two entries comes first.
C2_OrderIndependent ==
    (Finished /\ DefinedAndUsed) =>
        LET o == build(SwapSelect(query), counter0)
        IN /\ error = NoError
           /\ o.err = NoError
           /\ SameResolution(select_descriptor, o.sd)

\* C3: for every select field of a query that compiles, the descriptor the
\* second pass produces carries the same resolved data as the descriptor of
\* the same alias in the verified intermediate table.
C3_ReResolutionIdempotent ==
    pc = "done" =>
        \A i \in 1..Len(select_parsed) :
            Resolved(select_parsed[i])
                = Resolved(get_descriptor(tuple_descriptor, select_parsed[i].alias))

RECURSIVE LeafAliases(_)
LeafAliases(t) ==
    IF t.op \in {"Contains", "Equals"} THEN {t.alias}
    ELSE UNION { LeafAliases(t.kids[j]) : j \in 1..Len(t.kids) }

SelectAliases == { SelectAlias(query.select[i]) : i \in 1..Len(query.select) }

\* C4: after a successful build the output table holds every alias of a
\* Contains/Equals leaf, every top-level SELECT alias is visible in it, and
\* an alias only the where clause refers to is present but invisible.
C4_OutputVisibility ==
    pc = "done" =>
        /\ \A a \in LeafAliases(tree) : HasAlias(select_descriptor, a)
        /\ \A a \in SelectAliases :
               /\ HasAlias(select_descriptor, a)
               /\ get_descriptor(select_descriptor, a).visible
        /\ \A a \in LeafAliases(tree) \ SelectAliases :
               ~get_descriptor(select_descriptor, a).visible

\* the build got as far as the aggregate branch: recognized source, every
\* field resolvable
Validated ==
    /\ Finished
    /\ error \in {NoError, AggregateWithoutWindow, UngroupedSelectField}

\* a call to a registered aggregate, or a name that resolves to one
IsAggregateField(field) ==
    IF IsCall(field) THEN field.head \in AggregateNames
    ELSE get_descriptor(tuple_descriptor, field.head).field_type = AGGREGATE

HasAggregateSelect == \E i \in 1..Len(query.select) : IsAggregateField(query.select[i])

\* C5: a query with a recognized source and resolvable fields that selects
\* an aggregate and has no WINDOW fails with AggregateWithoutWindow and
\* returns no tree; it never fails with UngroupedSelectField instead.
C5_AggregateNeedsWindow ==
    (Validated /\ HasAggregateSelect /\ query.window = None) =>
        /\ pc = "failed"
        /\ error = AggregateWithoutWindow
        /\ root = NoRoot

C5_Witness ==
    /\ pc = "failed"
    /\ error = AggregateWithoutWindow
    /\ query.select = <<Name("text"), Field("count", <<Name("text")>>, "c")>>
    /\ query.groupby = <<>>
    /\ query.window = None
    /\ get_descriptor(select_descriptor, "text").visible

\* visible, not an aggregate, and without an entry in the GROUP BY descriptor
UngroupedAliases ==
    { a \in AliasSet(select_descriptor) :
        /\ get_descriptor(select_descriptor, a).visible
        /\ get_descriptor(select_descriptor, a).field_type # AGGREGATE
        /\ a \notin AliasSet(group_descriptor) }

AggregateSelectAliases ==
    LET agg == SelectSeq(query.select, IsAggregateField)
    IN [i \in 1..Len(agg) |-> SelectAlias(agg[i])]

\* C6: with an aggregate in SELECT and a WINDOW, build fails with
\* UngroupedSelectField exactly when some alias of the output table is
\* visible, not an aggregate and absent from the GROUP BY descriptor;
\* otherwise it succeeds with a GroupBy root that carries the GROUP BY
\* descriptor (empty without GROUP BY), the aggregate select descriptors in
\* select order, and the window.
C6_GroupingCheck ==
    (Validated /\ HasAggregateSelect /\ query.window # None) =>
        /\ (error = UngroupedSelectField) <=> (UngroupedAliases # {})
        /\ UngroupedAliases = {} =>
              /\ pc = "done"
              /\ root = GroupBy(query.window)
              /\ AliasSet(group_descriptor)
                    = { SelectAlias(query.groupby[i]) : i \in 1..Len(query.groupby) }
              /\ Aliases(aggregates) = AggregateSelectAliases
              /\ \A i \in 1..Len(aggregates) : aggregates[i].field_type = AGGREGATE

C6_Witness ==
    /\ pc = "failed"
    /\ error = UngroupedSelectField
    /\ query.window # None
    /\ query.groupby = <<Name("text")>>
    /\ UngroupedAliases = {"t"}
    /\ \E i \in 1..Len(select_descriptor) :
          /\ ~select_descriptor[i].visible
          /\ select_descriptor[i].field_type # AGGREGATE
          /\ select_descriptor[i].alias \notin AliasSet(group_descriptor)

\* C7: the Reference Verifier ends in one of two ways: the descriptor it
\* returns is not UNDEFINED, or it fails with UnresolvableField.
C7_VerifierOutcome ==
    /\ pc \in {"select", "group", "done"} =>
          \A i \in 1..Len(fields_to_verify) :
              get_descriptor(tuple_descriptor, fields_to_verify[i]).field_type
                  \in {RAW, FUNCTION, AGGREGATE}
    /\ (pc = "failed" /\ error \notin {UnknownSource, EmptyFieldClause,
                                        MissingAliasForComplexField, UnknownCallable,
                                        AggregateWithoutWindow, UngroupedSelectField})
          => error = UnresolvableField

\* C9: after a successful build no descriptor of the output table or of
\* the GROUP BY descriptor is UNDEFINED.
C9_NoPendingInOutput ==
    pc = "done" =>
        /\ \A i \in 1..Len(select_descriptor) :
               select_descriptor[i].field_type \in {RAW, FUNCTION, AGGREGATE}
        /\ \A i \in 1..Len(group_descriptor) :
               group_descriptor[i].field_type \in {RAW, FUNCTION, AGGREGATE}

\* C10: after a successful build every alias in underlying_fields of a
\* FUNCTION or AGGREGATE descriptor of the output table is a key of the table.
C10_ReferentiallyClosed ==
    pc = "done" =>
        \A i \in 1..Len(select_descriptor) :
            select_descriptor[i].field_type \in {FUNCTION, AGGREGATE} =>
                \A j \in 1..Len(select_descriptor[i].underlying_fields) :
                    HasAlias(select_descriptor,
                             select_descriptor[i].underlying_fields[j])

---------------------------------------------------------------------------
(* Compilations sharing one instance: the mint step of __parse_field *)

\* Each compilation mints between 1 and MaxMints aliases.  The statement
\* `self.unnamed_operator_counter += 1` reads the attribute and then stores
\* the sum; the alias is formatted from a later read of the attribute.
Compilations == {"first", "second"}

InitMint ==
    /\ query = NoQuery
    /\ pc = "idle"
    /\ counter = 0
    /\ counter0 = 0
    /\ tree = NoTree
    /\ where_fields = <<>>
    /\ tuple_descriptor = TupleDescriptor
    /\ fields_to_verify = <<>>
    /\ select_descriptor = TupleDescriptor
    /\ group_descriptor = TupleDescriptor
    /\ aggregates = <<>>
    /\ select_parsed = <<>>
    /\ root = NoRoot
    /\ source = None
    /\ error = NoError
    /\ threads = [t \in Compilations |-> [pc |-> "idle", loaded |-> 0, todo |-> 0]]
    /\ minted = <<>>
    /\ serialized \in BOOLEAN

Running(t) == threads[t].pc \in {"load", "store", "format"}

\* a build call begins; with serialized use, only when no other is running
BeginCompilation(t, k) ==
    /\ threads[t].pc = "idle"
    /\ serialized => \A o \in Compilations : ~Running(o)
    /\ threads' = [threads EXCEPT ![t] = [pc |-> "load", loaded |-> 0, todo |-> k]]
    /\ UNCHANGED <<counter, minted, serialized, buildVars>>

LoadCounter(t) ==
    /\ threads[t].pc = "load"
    /\ threads' = [threads EXCEPT ![t].pc = "store", ![t].loaded = counter]
    /\ UNCHANGED <<counter, minted, serialized, buildVars>>

StoreCounter(t) ==
    /\ threads[t].pc = "store"
    /\ counter' = MintCounter(threads[t].loaded)
    /\ threads' = [threads EXCEPT ![t].pc = "format"]
    /\ UNCHANGED <<minted, serialized, buildVars>>

FormatAlias(t) ==
    /\ threads[t].pc = "format"
    /\ minted' = Append(minted, <<t, MintAlias(counter)>>)
    /\ threads' = [threads EXCEPT
                     ![t].todo = @ - 1,
                     ![t].pc = IF threads[t].todo = 1 THEN "finished" ELSE "load"]
    /\ UNCHANGED <<counter, serialized, buildVars>>

NextMint ==
    \E t \in Compilations :
        \/ \E k \in 1..MaxMints : BeginCompilation(t, k)
        \/ LoadCounter(t)
        \/ StoreCounter(t)
        \/ FormatAlias(t)

SpecMint == InitMint /\ [][NextMint]_vars

\* C8: with build calls serialized on one instance every minted alias
\* differs from every alias minted before it; with two compilations running
\* at once the increment and the read can interleave so that two
\* sub-expressions get the same alias (C8_Collision is reachable).
C8_SerializedMintsDistinct ==
    serialized =>
        \A i, j \in 1..Len(minted) : i # j => minted[i][2] # minted[j][2]

C8_Collision ==
    /\ ~serialized
    /\ \E i, j \in 1..Len(minted) :
          /\ minted[i][1] # minted[j][1]
          /\ minted[i][2] = minted[j][2]

=============================================================================
